---- MODULE Spec2Model ----
(***************************************************************************)
(* Model of graph_gen (src/src/lib.rs): the Erdos-Renyi model ErModel, the *)
(* rejection-sampling generator ErGenerator::gen, the weight resampling    *)
(* Graph::pluck_random_weights and the literal mapping of Max2SatGraph.    *)
(*                                                                         *)
(* The probability p (an f64 in the source) is a rational p / PDen, p an   *)
(* integer numerator.  p * nb_possible_edges() is then the exact rational  *)
(* (p * possible) / PDen; f64::round rounds half away from zero.  For the  *)
(* small operands used here the f64 product is exact when PDen is a power  *)
(* of two, and when PDen is odd the exact product is never a tie and lies  *)
(* at least 1/(2*PDen) from one, far more than the f64 error.              *)
(***************************************************************************)
EXTENDS Integers, Sequences, FiniteSets, TLC

\* ------------------------------------------------------------------ bounds
\* largest vertex count given to ErModel::new
MaxN == 4
\* largest vertex count of a model on which with_self_loops() is called
MaxLoopN == 3
\* denominator of the probabilities: p ranges over (-1 .. PDen+1) / PDen
PDen == 4
\* longest candidate list given to pluck_random_weights
MaxFrom == 2
\* most edges of a graph given to pluck_random_weights
MaxPluckEdges == 3
\* largest vertex count of a graph wrapped in a Max2SatGraph
MaxSatN == 14

\* numerators of p: -1 and PDen+1 are the values outside [0,1]
PNums == (-1) .. (PDen + 1)
\* weights a caller may offer; none is the default weight 1
WeightVals == {-3, 7}
Froms == UNION {[1..k -> WeightVals] : k \in 0..MaxFrom}

\* pc       where the caller stands: "start", "model" (an ErModel exists),
\*          "generator" (an ErGenerator exists), "sampling" (inside the loop
\*          of gen), "done" (gen returned g), "weighted" (the weights of g
\*          were plucked), "sat" (g is wrapped in a Max2SatGraph), "panic"
\* model    the ErModel, then the model field of the ErGenerator
\* g        the Graph being built or returned
\* nb_edges the local nb_edges of gen()
\* from     the candidates given to pluck_random_weights on g, <<>> before
\* lits     the results of literal() for the vertex ids 1, 2, ... of g
VARIABLES pc, model, g, nb_edges, from, lits
vars == <<pc, model, g, nb_edges, from, lits>>

\* ------------------------------------------------------------------ helpers
Range(s) == {s[i] : i \in DOMAIN s}
Max(a, b) == IF a >= b THEN a ELSE b

\* f64::round: to the nearest integer, halves away from zero, of num/den
Round(num, den) ==
    IF num >= 0 THEN (2 * num + den) \div (2 * den)
    ELSE -((2 * (-num) + den) \div (2 * den))

\* `as usize` of a float: saturates, so a negative value becomes 0 (the
\* upper end of usize is out of reach of the values used here)
AsUsize(x) == Max(0, x)

\* ------------------------------------------------------------------ ErModel
NoModel == [n |-> 0, p |-> 0, digraph |-> FALSE, self_loops |-> FALSE]

ErModelNew(n, p) == [n |-> n, p |-> p, self_loops |-> FALSE, digraph |-> FALSE]
ErModelDigraph(m) ==
    [n |-> m.n, p |-> m.p, self_loops |-> m.self_loops, digraph |-> TRUE]
ErModelWithSelfLoops(m) ==
    [n |-> m.n, p |-> m.p, self_loops |-> TRUE, digraph |-> m.digraph]

\* the number of edges if the graph were full mesh.  It is only called from
\* gen(), hence with n >= 1 (ErGenerator::new panics on n = 0), so the usize
\* subtraction n - 1 never wraps.
NbPossibleEdges(m) ==
    LET sources == m.n
        dests   == IF m.self_loops THEN m.n ELSE m.n - 1
    IN  IF m.digraph THEN sources * dests ELSE (sources * dests) \div 2

NbEdgesToPickByVertices(m) == AsUsize(Round(m.p * m.n, PDen))
\* (self.p * self.nb_possible_edges() as f64).round() as usize
NbEdgesToPick(m) == AsUsize(Round(m.p * NbPossibleEdges(m), PDen))

\* ------------------------------------------------------------------ Edge
IsSelfLoop(e) == e[1] = e[2]
Rev(e) == <<e[2], e[1]>>

\* ------------------------------------------------------------------ Graph
EmptyList == [e \in {} |-> 1]
NoGraph == [model |-> NoModel, n |-> 0, list |-> EmptyList]
\* HashMap::len
ListLen(list) == Cardinality(DOMAIN list)
Insert(list, e, w) ==
    [x \in (DOMAIN list) \cup {e} |-> IF x = e THEN w ELSE list[x]]

\* from[dist.sample(&mut rng)], the sample i drawn in 0 .. from.len()-1
PluckedIndex(cands, i) == i
PluckedWeight(cands, i) == cands[i + 1]

\* ------------------------------------------------------------------ ErGenerator
\* next_edge(): number is the draw of Uniform::new(0, n*n)
NextEdge(m, number) == <<(number \div m.n) + 1, (number % m.n) + 1>>

LoopCondLe(list, nb) == ListLen(list) <= nb
\* while g.list.len() < nb_edges
LoopCond(list, nb) == ListLen(list) < nb

NoLoopCheck(m, e) == FALSE
\* if edge.is_self_loop() && !self.model.self_loops { continue; }
RejectedAsLoop(m, e) == IsSelfLoop(e) /\ ~m.self_loops

DuplicateNoRev(list, e) == e \in DOMAIN list
\* if g.list.contains_key(&edge) || g.list.contains_key(&edge.rev()) { continue; }
Duplicate(list, e) == e \in DOMAIN list \/ Rev(e) \in DOMAIN list

\* the candidate reaches g.list.insert(edge, 1)
Accepts(m, list, e) == ~RejectedAsLoop(m, e) /\ ~Duplicate(list, e)

\* ------------------------------------------------------------------ Max2SatGraph
LiteralGe(n, v_id) == IF v_id >= n \div 2 THEN -(v_id \div 2) ELSE v_id
\* literal(): v_id > 0, so Rust's truncating division is \div
Literal(n, v_id) == IF v_id > n \div 2 THEN -(v_id \div 2) ELSE v_id

\* ------------------------------------------------------------------ actions
Init ==
    /\ pc = "start"
    /\ model = NoModel
    /\ g = NoGraph
    /\ nb_edges = 0
    /\ from = <<>>
    /\ lits = <<>>

New ==
    /\ pc = "start"
    /\ \E n \in 0..MaxN, p \in PNums : model' = ErModelNew(n, p)
    /\ pc' = "model"
    /\ UNCHANGED <<g, nb_edges, from, lits>>

Digraph ==
    /\ pc = "model"
    /\ model' = ErModelDigraph(model)
    /\ UNCHANGED <<pc, g, nb_edges, from, lits>>

WithSelfLoops ==
    /\ pc = "model"
    /\ model.n <= MaxLoopN
    /\ model' = ErModelWithSelfLoops(model)
    /\ UNCHANGED <<pc, g, nb_edges, from, lits>>

\* ErGenerator::new: Uniform::new(0, n*n) panics unless 0 < n*n
Generator ==
    /\ pc = "model"
    /\ pc' = IF 0 < model.n * model.n THEN "generator" ELSE "panic"
    /\ UNCHANGED <<model, g, nb_edges, from, lits>>

\* gen(), up to the loop; also Iterator::next on a generator already used.
\* The new graph has had no candidates plucked: from starts over.
GenBegin ==
    /\ pc \in {"generator", "done", "weighted"}
    /\ g' = [model |-> model, n |-> model.n, list |-> EmptyList]
    /\ nb_edges' = NbEdgesToPick(model)
    /\ from' = <<>>
    /\ pc' = "sampling"
    /\ UNCHANGED <<model, lits>>

\* one iteration of the loop of gen()
GenStep ==
    /\ pc = "sampling"
    /\ LoopCond(g.list, nb_edges)
    /\ \E number \in 0 .. (model.n * model.n - 1) :
         LET edge == NextEdge(model, number)
         IN  IF RejectedAsLoop(model, edge) THEN g' = g
             ELSE IF Duplicate(g.list, edge) THEN g' = g
             ELSE g' = [g EXCEPT !.list = Insert(g.list, edge, 1)]
    /\ UNCHANGED <<pc, model, nb_edges, from, lits>>

\* the loop of gen() ends and g is returned
GenReturn ==
    /\ pc = "sampling"
    /\ ~LoopCond(g.list, nb_edges)
    /\ pc' = "done"
    /\ UNCHANGED <<model, g, nb_edges, from, lits>>

\* Graph::pluck_random_weights(from) on the graph gen() returned, as Args::graph
\* calls it; Uniform::new(0, from.len()) panics on an empty slice
PluckRandomWeights ==
    /\ pc = "done"
    /\ ListLen(g.list) <= MaxPluckEdges
    /\ \E cands \in Froms :
         /\ from' = cands
         /\ IF 0 < Len(cands)
            THEN /\ \E idx \in [DOMAIN g.list -> 0 .. (Len(cands) - 1)] :
                      g' = [g EXCEPT !.list =
                              [e \in DOMAIN g.list |-> PluckedWeight(cands, idx[e])]]
                 /\ pc' = "weighted"
            ELSE /\ g' = g
                 /\ pc' = "panic"
    /\ UNCHANGED <<model, nb_edges, lits>>

Next ==
    \/ New
    \/ Digraph
    \/ WithSelfLoops
    \/ Generator
    \/ GenBegin
    \/ GenStep
    \/ GenReturn
    \/ PluckRandomWeights

Spec == Init /\ [][Next]_vars

\* --------------------------------------------- literal() on its own
\* A Max2SatGraph over the graph gen() returns for p = 0: n vertices, no edge.
InitLit ==
    /\ pc = "sat"
    /\ \E n \in 1..MaxSatN :
         /\ model = ErModelNew(n, 0)
         /\ g = [model |-> model, n |-> n, list |-> EmptyList]
    /\ nb_edges = 0
    /\ from = <<>>
    /\ lits = <<>>

\* literal(v) for the next vertex id, as to_dimacs and to_dot call it
LiteralStep ==
    /\ pc = "sat"
    /\ Len(lits) < g.n
    /\ lits' = Append(lits, Literal(g.n, Len(lits) + 1))
    /\ UNCHANGED <<pc, model, g, nb_edges, from>>

NextLit == LiteralStep

SpecLit == InitLit /\ [][NextLit]_vars

\* ------------------------------------------------------------------ claims
\* n >= 1, n >= 2 when self-loops are disallowed, p in [0,1]
ValidModel(m) ==
    /\ m.n >= 1
    /\ (m.self_loops \/ m.n >= 2)
    /\ 0 <= m.p /\ m.p <= PDen

Returned == pc \in {"done", "weighted"}

\* C1: for a valid model, the graph gen() returns holds exactly
\* nb_edges_to_pick() = round(p * nb_possible_edges()) edges; n = 4, p = 1,
\* undirected, no self-loops gives 6 edges, every unordered pair once; p = 0
\* gives no edge.
C1_ExactEdgeCount ==
    (Returned /\ ValidModel(g.model)) =>
        /\ ListLen(g.list) = NbEdgesToPick(g.model)
        /\ ListLen(g.list) = Round(g.model.p * NbPossibleEdges(g.model), PDen)
        /\ (g.model.p = 0 => DOMAIN g.list = {})
        /\ (g.model = ErModelNew(4, PDen) =>
              /\ ListLen(g.list) = 6
              /\ \A a \in 1..4 : \A b \in (a + 1)..4 :
                    (<<a, b>> \in DOMAIN g.list) # (<<b, a>> \in DOMAIN g.list))

C1_Witness ==
    /\ pc = "done"
    /\ g.model = ErModelNew(4, PDen)
    /\ ListLen(g.list) = 6

\* C2 (as claimed): for a valid model the loop of gen() is never stuck: while
\* it still wants edges, some cell of the n x n grid is a candidate it accepts.
C2_NeverStuck ==
    (pc = "sampling" /\ ValidModel(model) /\ LoopCond(g.list, nb_edges)) =>
        \E number \in 0 .. (model.n * model.n - 1) :
            Accepts(model, g.list, NextEdge(model, number))

\* C3: an undirected graph never holds both (a,b) and (b,a), a # b, at any
\* step of the loop or once returned.
C3_NoBothDirections ==
    (~g.model.digraph) =>
        \A e \in DOMAIN g.list : ~IsSelfLoop(e) => Rev(e) \notin DOMAIN g.list

C3_Witness ==
    /\ pc = "done"
    /\ ~g.model.digraph
    /\ g.model.n = 3
    /\ \A a \in 1..3 : \A b \in (a + 1)..3 :
          <<a, b>> \in DOMAIN g.list \/ <<b, a>> \in DOMAIN g.list

\* C4: when self-loops are disallowed, no edge has src = dst, at any step of
\* the loop or once returned.
C4_NoSelfLoop ==
    (~g.model.self_loops) => \A e \in DOMAIN g.list : ~IsSelfLoop(e)

C4_Witness ==
    /\ pc = "done"
    /\ ~g.model.self_loops
    /\ g.model.n = 4
    /\ ListLen(g.list) = NbPossibleEdges(g.model)
    /\ ListLen(g.list) > 0

\* C5 (as claimed): no ErModel exists with n = 0 or p outside [0,1], and no
\* generator or graph is ever built from a model that is not valid.
C5_InvalidRejected ==
    /\ (pc # "start" => (model.n >= 1 /\ 0 <= model.p /\ model.p <= PDen))
    /\ (pc \in {"generator", "sampling", "done", "weighted"} => ValidModel(model))

\* C6: pluck_random_weights with a non-empty candidate list leaves every
\* weight a member of the candidates and changes neither the set of edges,
\* nor n, nor the model.
C6_PluckFrame ==
    [][(pc = "done" /\ pc' = "weighted") =>
          /\ Len(from') > 0
          /\ \A e \in DOMAIN g'.list : g'.list[e] \in Range(from')
          /\ DOMAIN g'.list = DOMAIN g.list
          /\ g'.n = g.n
          /\ g'.model = g.model
          /\ model' = model]_vars

C6_Witness ==
    /\ pc = "weighted"
    /\ Len(from) = 2
    /\ \E e1 \in DOMAIN g.list : \E e2 \in DOMAIN g.list :
          g.list[e1] # g.list[e2]

\* C7: literal(v) is v for v <= n/2 and -(v/2) for v > n/2; for n = 4 the
\* vertex ids 1, 2, 3, 4 give 1, 2, -1, -2.
C7_Literal ==
    \A v \in 1..Len(lits) :
        /\ (v <= g.n \div 2 => lits[v] = v)
        /\ (v > g.n \div 2 => lits[v] = -(v \div 2))
        /\ (g.n = 4 => lits[v] = <<1, 2, -1, -2>>[v])

C7_Witness == g.n = 4 /\ lits = <<1, 2, -1, -2>>

\* C8: nb_edges_to_pick() is non-decreasing in p over [0,1], 0 at p = 0 and
\* nb_possible_edges() at p = 1.
C8_MonotoneInP ==
    (pc \in {"sampling", "done", "weighted"} /\ ValidModel(model)) =>
        /\ \A q \in 0..PDen :
              /\ (q <= model.p => NbEdgesToPick([model EXCEPT !.p = q]) <= nb_edges)
              /\ (q >= model.p => nb_edges <= NbEdgesToPick([model EXCEPT !.p = q]))
        /\ (model.p = 0 => nb_edges = 0)
        /\ (model.p = PDen => nb_edges = NbPossibleEdges(model))

C8_Witness ==
    /\ pc = "sampling"
    /\ model.n = 4
    /\ 0 < model.p /\ model.p < PDen
    /\ 0 < nb_edges /\ nb_edges < NbPossibleEdges(model)

\* C9 (as claimed): for a directed model the loop accepts a candidate (a,b),
\* a # b, that is not yet in the map, even when (b,a) is.
C9_DirectedAcceptsReverse ==
    (pc = "sampling" /\ model.digraph /\ LoopCond(g.list, nb_edges)) =>
        \A number \in 0 .. (model.n * model.n - 1) :
            LET edge == NextEdge(model, number)
            IN  (~IsSelfLoop(edge) /\ edge \notin DOMAIN g.list) =>
                    Accepts(model, g.list, edge)

\* C10 (as claimed): over a graph with n = 2k vertices, literal() maps the
\* vertex ids 1..2k one-to-one onto the literals 1..k and -1..-k.
C10_LiteralBijection ==
    (pc = "sat" /\ g.n % 2 = 0 /\ Len(lits) = g.n) =>
        LET k == g.n \div 2
        IN  /\ Range(lits) = (1..k) \cup {-i : i \in 1..k}
            /\ Cardinality(Range(lits)) = 2 * k

====
